---- MODULE Spec2Model ----
(***************************************************************************)
(* gh-monit: the alert lifecycle cache (alerts, repo_sync, alert_history), *)
(* its ingestion transaction, and the refresh orchestration that drives    *)
(* it (single-repository refresh, CLI load path, refresh-all runs and the  *)
(* cron scheduler).                                                        *)
(***************************************************************************)
EXTENDS Integers, Sequences, FiniteSets, TLC

(* ---------------------------------------------------------------------- *)
(* Bounds                                                                  *)
(* ---------------------------------------------------------------------- *)
\* longest alert list one fetch returns
MaxBatch == 2
\* cap on the alert_history ids ever issued while ingestion and refresh
\* runs are explored
MaxHistory == 2
\* cap on the alert_history ids ever issued while the current-state views
\* are explored
MaxViewEvents == 3
\* cap on the alert_history ids ever issued while the history analytics are
\* explored
MaxEvents == 4
\* highest version a migration carries
MaxVersion == 3

\* the slots of the refreshAllRepos invocations in flight
RunSlots == {1, 2}

\* tracked repositories, in the order of ORDER BY rs.repo
Repos == {1, 2}

\* the clock counts fiftieths of a day (julianday differences are fractions
\* of a day)
UnitsPerDay == 50

(* ---------------------------------------------------------------------- *)
(* Raw provider records and the normalizer                                 *)
(* ---------------------------------------------------------------------- *)
\* an optional field is <<>> when missing and <<v>> when present
Coalesce(opt, default) == IF opt = <<>> THEN default ELSE opt[1]

\* the raw records the provider returns: number may be missing, the severity
\* sits in security_advisory or, failing that, in security_vulnerability
RawAlert(number, state, advSeverity, vulnSeverity, createdAt, ghsaId, packageName, ecosystem) ==
  [number |-> number, state |-> state,
   advSeverity |-> advSeverity, vulnSeverity |-> vulnSeverity,
   created_at |-> createdAt, ghsa_id |-> ghsaId,
   packageName |-> packageName, ecosystem |-> ecosystem]

\* a record that carries a state and severities only
Raw(number, state, advSeverity, vulnSeverity) ==
  RawAlert(number, state, advSeverity, vulnSeverity, <<>>, <<>>, <<>>, <<>>)

RawAlerts ==
  {Raw(<<>>, <<"open">>, <<"high">>, <<"low">>),
   Raw(<<>>, <<"fixed">>, <<"high">>, <<"low">>),
   Raw(<<>>, <<"open">>, <<>>, <<"low">>)}

RECURSIVE SeqsUpTo(_, _)
SeqsUpTo(S, n) ==
  IF n = 0 THEN {<<>>}
  ELSE LET shorter == SeqsUpTo(S, n - 1)
       IN shorter \cup {Append(s, x) : s \in {t \in shorter : Len(t) = n - 1}, x \in S}

\* the alert lists a successful fetch can return
RawBatches == SeqsUpTo(RawAlerts, MaxBatch)

\* the alert lists fetched while refresh-all runs are modelled: no alert or
\* one open alert
RunBatches ==
  {<<>>,
   <<Raw(<<>>, <<"open">>, <<"high">>, <<"low">>)>>}

\* the alert lists fetched while the cron scheduler is modelled: no alert
SchedulerBatches == {<<>>}

\* the records fetched while the current-state views are modelled: two
\* alerts per repository with their advisory, package and creation time; a
\* severity in capitals, a state outside the documented ones, missing fields
ViewAlerts ==
  {RawAlert(<<1>>, <<"open">>, <<"high">>, <<>>, <<1>>, <<"GHSA-1">>, <<"lodash">>, <<"npm">>),
   RawAlert(<<1>>, <<"fixed">>, <<"high">>, <<>>, <<1>>, <<"GHSA-1">>, <<"lodash">>, <<"npm">>),
   RawAlert(<<2>>, <<"open">>, <<"High">>, <<>>, <<2>>, <<"GHSA-2">>, <<"lodash">>, <<"npm">>),
   RawAlert(<<2>>, <<"open">>, <<>>, <<"critical">>, <<>>, <<>>, <<>>, <<>>),
   RawAlert(<<2>>, <<"auto_dismissed">>, <<>>, <<>>, <<2>>, <<"GHSA-2">>, <<"lodash">>, <<>>)}

ViewBatches == {<<>>} \cup {<<a>> : a \in ViewAlerts}

\* the records fetched while the history analytics are modelled: two alerts
\* that open and get fixed, one of them with its severity also in capitals
HistoryAlerts ==
  {Raw(<<1>>, <<"open">>, <<"critical">>, <<>>),
   Raw(<<1>>, <<"fixed">>, <<"critical">>, <<>>),
   Raw(<<2>>, <<"open">>, <<"critical">>, <<>>),
   Raw(<<2>>, <<"open">>, <<"CRITICAL">>, <<>>),
   Raw(<<2>>, <<"fixed">>, <<"critical">>, <<>>)}

\* the alert lists a repository returns while the history analytics are
\* modelled: the first repository any of the records, the others one open
\* alert
HistoryBatches(repo) ==
  IF repo = 1 THEN {<<a>> : a \in HistoryAlerts}
  ELSE {<<Raw(<<1>>, <<"open">>, <<"critical">>, <<>>)>>}

\* the records fetched while the SLA view is modelled: one alert per
\* repository that is open, changes severity or is fixed
SlaAlerts ==
  {Raw(<<1>>, <<"open">>, <<"critical">>, <<>>),
   Raw(<<1>>, <<"open">>, <<"High">>, <<>>),
   Raw(<<1>>, <<"fixed">>, <<"critical">>, <<>>)}

SlaBatches == {<<a>> : a \in SlaAlerts}

\* the records fetched while the frame and the effect of one ingestion are
\* modelled: an alert whose package name comes and goes while its state and
\* severity stay, and a second alert
IngestAlerts ==
  {RawAlert(<<1>>, <<"open">>, <<"high">>, <<>>, <<>>, <<>>, <<"lodash">>, <<>>),
   Raw(<<1>>, <<"open">>, <<"high">>, <<>>),
   Raw(<<2>>, <<"open">>, <<"high">>, <<>>)}

\* the lists of one record and of two records, a record repeated included
IngestBatches ==
  {<<a>> : a \in IngestAlerts} \cup {<<a, b>> : a, b \in IngestAlerts}

\* the instants the clock reaches while the history analytics are modelled:
\* the start, two days later, and shortly after that
Times == {0, 2 * UnitsPerDay, 2 * UnitsPerDay + 2}

NormalizeAlert(repo, alert) ==
  [repo |-> repo,
   alertNumber |-> Coalesce(alert.number, 0),
   state |-> Coalesce(alert.state, "unknown"),
   severity |-> Coalesce(alert.advSeverity, Coalesce(alert.vulnSeverity, "unknown")),
   packageName |-> alert.packageName,
   ecosystem |-> alert.ecosystem,
   createdAt |-> alert.created_at,
   ghsaId |-> alert.ghsa_id,
   rawJson |-> alert]

normalizeAlerts(repo, raw) == [i \in DOMAIN raw |-> NormalizeAlert(repo, raw[i])]

(* ---------------------------------------------------------------------- *)
(* State                                                                   *)
(* ---------------------------------------------------------------------- *)
VARIABLES
  alerts,         \* table alerts: set of rows
  repo_sync,      \* table repo_sync: set of rows [repo, lastSync]
  alert_history,  \* table alert_history: rows in id order
  seq,            \* AUTOINCREMENT counter of alert_history
  now,            \* wall clock
  runs,           \* the refreshAllRepos invocations, one slot each
  schedulerState, \* the scheduler's module-level state
  schema,         \* the _meta table, the schema objects the migrations made
                  \* and, as a history field, the migrations committed
  ingested,       \* history variable: the repositories with a committed
                  \* ingest since they were last removed
  lastOp          \* history variable: the operation that acted last and
                  \* what it returned

vars == <<alerts, repo_sync, alert_history, seq, now, runs, schedulerState,
          schema, ingested, lastOp>>
store == <<alerts, repo_sync, alert_history, seq, schema>>

\* the database as one value
Db == [alerts |-> alerts, repo_sync |-> repo_sync,
       alert_history |-> alert_history, seq |-> seq]

(* ---------------------------------------------------------------------- *)
(* SQL statements                                                          *)
(* ---------------------------------------------------------------------- *)
\* variant: a plain INSERT that adds the row whatever the table holds
InsertAlert(rows, alert) == rows \cup {alert}

\* variant: the incoming row replaces every row of its repository
UpsertAlertReplacingRepo(rows, alert) ==
  {r \in rows : r.repo # alert.repo} \cup {alert}

\* INSERT INTO alerts ... ON CONFLICT(repo, alert_number) DO UPDATE SET ...
UpsertAlert(rows, alert) ==
  {r \in rows : ~(r.repo = alert.repo /\ r.alertNumber = alert.alertNumber)}
    \cup {alert}

\* INSERT INTO repo_sync ... ON CONFLICT(repo) DO UPDATE SET last_sync
UpsertSync(rows, repo, lastSync) ==
  {r \in rows : r.repo # repo} \cup {[repo |-> repo, lastSync |-> lastSync]}

\* variant: the event replaces the earlier events of its key
InsertHistoryReplace(db, repo, alert, recordedAt) ==
  [db EXCEPT
     !.seq = db.seq + 1,
     !.alert_history = Append(
        SelectSeq(db.alert_history,
                  LAMBDA h : ~(h.repo = repo /\ h.alertNumber = alert.alertNumber)),
        [id |-> db.seq + 1, repo |-> repo, alertNumber |-> alert.alertNumber,
         state |-> alert.state, severity |-> alert.severity,
         recordedAt |-> recordedAt, rawJson |-> alert.rawJson])]

\* INSERT INTO alert_history: id is the next AUTOINCREMENT value
InsertHistory(db, repo, alert, recordedAt) ==
  [db EXCEPT
     !.seq = db.seq + 1,
     !.alert_history = Append(db.alert_history,
        [id |-> db.seq + 1, repo |-> repo, alertNumber |-> alert.alertNumber,
         state |-> alert.state, severity |-> alert.severity,
         recordedAt |-> recordedAt, rawJson |-> alert.rawJson])]

\* SELECT alert_number, state, severity FROM alerts WHERE repo = ?
existingRows(db, repo) == {r \in db.alerts : r.repo = repo}

\* existingMap.get(alertNumber): the rows found for the number (none or one)
existingGet(existing, alertNumber) == {r \in existing : r.alertNumber = alertNumber}

hasChanged(existing, alert) ==
  LET found == existingGet(existing, alert.alertNumber)
  IN found = {}
     \/ \E e \in found : e.state # alert.state \/ e.severity # alert.severity

(* ---------------------------------------------------------------------- *)
(* saveAlerts                                                              *)
(* ---------------------------------------------------------------------- *)
\* a storage fault: the statement at which the transaction throws
NoFault == [at |-> 0, stmt |-> "none"]
Faults(n) ==
  {NoFault}
    \cup [at : 1..n, stmt : {"history", "upsert"}]
    \cup {[at |-> n + 1, stmt |-> "sync"], [at |-> n + 1, stmt |-> "commit"]}

\* variant: the row is written only when the alert has changed
LoopStepUpsertsWhenChanged(db, existing, repo, alert, lastSync, i, fault) ==
  LET changed == hasChanged(existing, alert)
      afterHistory ==
        IF changed /\ ~(fault.at = i /\ fault.stmt = "history")
        THEN InsertHistory(db, repo, alert, lastSync)
        ELSE db
  IN IF fault.at = i \/ ~changed
     THEN afterHistory
     ELSE [afterHistory EXCEPT !.alerts = UpsertAlert(afterHistory.alerts, alert)]

\* one iteration of the for loop for alerts[i]; a fault stops it midway
LoopStep(db, existing, repo, alert, lastSync, i, fault) ==
  LET changed == hasChanged(existing, alert)
      afterHistory ==
        IF changed /\ ~(fault.at = i /\ fault.stmt = "history")
        THEN InsertHistory(db, repo, alert, lastSync)
        ELSE db
  IN IF fault.at = i
     THEN afterHistory
     ELSE [afterHistory EXCEPT !.alerts = UpsertAlert(afterHistory.alerts, alert)]

RECURSIVE TransactionBody(_, _, _, _, _, _, _)
TransactionBody(db, existing, repo, batch, lastSync, i, fault) ==
  IF i > Len(batch)
  THEN IF fault.stmt = "sync"
       THEN db
       ELSE [db EXCEPT !.repo_sync = UpsertSync(db.repo_sync, repo, lastSync)]
  ELSE IF fault.at = i
       THEN LoopStep(db, existing, repo, batch[i], lastSync, i, fault)
       ELSE TransactionBody(
              LoopStep(db, existing, repo, batch[i], lastSync, i, fault),
              existing, repo, batch, lastSync, i + 1, fault)

\* variant: the statements run outside a transaction, nothing is rolled back
TransactionNoRollback(before, working, fault) == working

\* db.transaction(fn)(): COMMIT when fn returns, ROLLBACK when it throws
Transaction(before, working, fault) ==
  IF fault = NoFault THEN working ELSE before

saveAlerts(db, repo, batch, lastSync, fault) ==
  LET existing == existingRows(db, repo)
  IN Transaction(db,
       TransactionBody(db, existing, repo, batch, lastSync, 1, fault), fault)

\* a fault can only fire at a statement the call executes
Applicable(db, repo, batch, fault) ==
  fault.stmt = "history" =>
    hasChanged(existingRows(db, repo), batch[fault.at])

(* ---------------------------------------------------------------------- *)
(* Reads                                                                   *)
(* ---------------------------------------------------------------------- *)
\* variant: hasCache is derived from the alert rows found
getCachedAlertsByRows(db, repo) ==
  LET sync == {r \in db.repo_sync : r.repo = repo}
      rows == {r \in db.alerts : r.repo = repo}
  IN IF rows = {}
     THEN [alerts |-> {}, lastSync |-> <<>>, hasCache |-> FALSE]
     ELSE [alerts |-> rows,
           lastSync |-> IF sync = {} THEN <<>>
                        ELSE <<(CHOOSE r \in sync : TRUE).lastSync>>,
           hasCache |-> TRUE]

getCachedAlerts(db, repo) ==
  LET sync == {r \in db.repo_sync : r.repo = repo}
  IN IF sync = {}
     THEN [alerts |-> {}, lastSync |-> <<>>, hasCache |-> FALSE]
     ELSE [alerts |-> {r \in db.alerts : r.repo = repo},
           lastSync |-> <<(CHOOSE r \in sync : TRUE).lastSync>>,
           hasCache |-> TRUE]

\* SELECT rs.repo ... FROM repo_sync rs ... ORDER BY rs.repo: the tracked
\* repositories in ascending order
RECURSIVE SortedSeq(_)
SortedSeq(S) ==
  IF S = {} THEN <<>>
  ELSE LET m == CHOOSE x \in S : \A y \in S : x <= y
       IN <<m>> \o SortedSeq(S \ {m})

getAllRepoSummaries(db) == SortedSeq({r.repo : r \in db.repo_sync})

\* ret is <<>> or <<v>>, v the value a finished refreshAllRepos returned,
\* the repository a removal was asked for, the flag and the value of a
\* loadRepoAlerts call, or the list a runMigrations call was given
\* dup tells that the operation ingested a list with a repeated alertNumber
OpRet(op, outcome, ret) ==
  [op |-> op, outcome |-> outcome, ret |-> ret, dup |-> FALSE]

Op(op, outcome) == OpRet(op, outcome, <<>>)

(* ---------------------------------------------------------------------- *)
(* runMigrations and openDatabase                                          *)
(* ---------------------------------------------------------------------- *)
\* String(migration.version) and Number(row.value) on the versions in use
VersionStrings == <<"1", "2", "3", "4", "5", "6", "7", "8", "9">>

String(version) == VersionStrings[version]

Number(value) == CHOOSE v \in DOMAIN VersionStrings : VersionStrings[v] = value

\* a database file that was never opened: no _meta table, no schema object
FreshSchema ==
  [metaTable |-> FALSE, schema_version |-> <<>>, objects |-> {}, applied |-> <<>>]

\* the migration lists a caller passes: the versions 1..MaxVersion, some of
\* them, in any order
RECURSIVE Arrangements(_)
Arrangements(S) ==
  IF S = {} THEN {<<>>}
  ELSE UNION {{<<v>> \o rest : rest \in Arrangements(S \ {v})} : v \in S}

MigrationLists == UNION {Arrangements(S) : S \in (SUBSET (1..MaxVersion)) \ {{}}}

\* the migrations constant of the program
ProgramMigrations == <<1, 2>>

\* row ? Number(row.value) : 0
currentVersion(sch) ==
  IF sch.schema_version = <<>> THEN 0 ELSE Number(sch.schema_version[1])

\* variant: the migration of the stored version is pending as well
pendingMigrationsFromCurrent(sch, migrations) ==
  SortedSeq({migrations[i] : i \in {i \in DOMAIN migrations :
                                      migrations[i] >= currentVersion(sch)}})

\* migrations.filter(m => m.version > currentVersion).sort(by version)
pendingMigrations(sch, migrations) ==
  SortedSeq({migrations[i] : i \in {i \in DOMAIN migrations :
                                      migrations[i] > currentVersion(sch)}})

\* a fault of the migrate transaction: the statement at which it throws
MigrationFaults(n) ==
  {NoFault}
    \cup [at : 1..n, stmt : {"up", "version"}]
    \cup {[at |-> n + 1, stmt |-> "commit"]}

\* the body of the migrate transaction from pending[i] on; a fault stops it
RECURSIVE migrateFrom(_, _, _, _)
migrateFrom(sch, pending, i, fault) ==
  IF i > Len(pending) THEN sch
  ELSE LET version == pending[i]
           afterUp == [sch EXCEPT !.objects = @ \cup {version},
                                  !.applied = Append(@, version)]
           afterVersion == [afterUp EXCEPT !.schema_version = <<String(version)>>]
       IN IF fault.at = i
          THEN IF fault.stmt = "up" THEN sch ELSE afterUp
          ELSE migrateFrom(afterVersion, pending, i + 1, fault)

\* runMigrations(db, migrations); fault is where the transaction throws
runMigrations(sch, migrations, fault) ==
  LET withMeta == [sch EXCEPT !.metaTable = TRUE]
      pending == pendingMigrations(withMeta, migrations)
  IN IF pending = <<>> THEN withMeta
     ELSE Transaction(withMeta, migrateFrom(withMeta, pending, 1, fault), fault)

\* a process opens the database file: openDatabase runs the migrations it
\* was given
OpenDatabase(migrations) ==
  \E fault \in MigrationFaults(Len(pendingMigrations(schema, migrations))) :
    /\ pendingMigrations(schema, migrations) = <<>> => fault = NoFault
    /\ schema' = runMigrations(schema, migrations, fault)
    /\ lastOp' = OpRet("runMigrations",
                       IF fault = NoFault THEN "ok" ELSE "threw",
                       <<migrations>>)
    /\ UNCHANGED <<alerts, repo_sync, alert_history, seq, now, runs,
                   schedulerState, ingested>>

(* ---------------------------------------------------------------------- *)
(* Initial state: empty database, scheduler started, nothing in flight     *)
(* ---------------------------------------------------------------------- *)
\* delays counts the stagger delays the run has awaited
IdleRun == [pc |-> "idle", entry |-> "none", repos |-> <<>>, i |-> 0,
            results |-> <<>>, startTime |-> 0, delays |-> 0]

\* getNextRunDate for a daily expression: the next occurrence of the
\* scheduled time of day (here the start of the day) after t
getNextRunDate(t) == <<((t \div UnitsPerDay) + 1) * UnitsPerDay>>

Init ==
  /\ alerts = {}
  /\ repo_sync = {}
  /\ alert_history = <<>>
  /\ seq = 0
  /\ now = 0
  /\ runs = [r \in RunSlots |-> IdleRun]
  /\ schedulerState = [running |-> FALSE, lastRun |-> <<>>, lastResult |-> <<>>,
                       nextRun |-> getNextRunDate(0)]
  /\ schema = runMigrations(FreshSchema, ProgramMigrations, NoFault)
  /\ ingested = {}
  /\ lastOp = Op("init", "none")

\* a database file before any process opened it
InitFresh ==
  /\ alerts = {}
  /\ repo_sync = {}
  /\ alert_history = <<>>
  /\ seq = 0
  /\ now = 0
  /\ runs = [r \in RunSlots |-> IdleRun]
  /\ schedulerState = [running |-> FALSE, lastRun |-> <<>>, lastResult |-> <<>>,
                       nextRun |-> <<>>]
  /\ schema = FreshSchema
  /\ ingested = {}
  /\ lastOp = Op("init", "none")

\* the database takes the value db
SetDb(db) ==
  /\ alerts' = db.alerts
  /\ repo_sync' = db.repo_sync
  /\ alert_history' = db.alert_history
  /\ seq' = db.seq
  /\ UNCHANGED schema

(* ---------------------------------------------------------------------- *)
(* POST /api/repos/:owner/:name/refresh                                    *)
(* ---------------------------------------------------------------------- *)
\* fetched is <<>> when fetchDependabotAlerts returned null, <<raw>> otherwise
FetchOutcomes(batches) == {<<>>} \cup {<<raw>> : raw \in batches}

\* normalizeAlerts, then saveAlerts at the current time; the call commits or
\* throws at the storage fault
Ingest(repo, raw, fault) ==
  LET batch == normalizeAlerts(repo, raw)
      db == saveAlerts(Db, repo, batch, now, fault)
  IN /\ fault \in Faults(Len(batch))
     /\ Applicable(Db, repo, batch, fault)
     /\ SetDb(db)
     /\ ingested' = IF fault = NoFault THEN ingested \cup {repo} ELSE ingested

HasDuplicates(batch) ==
  \E i, j \in DOMAIN batch : i < j /\ batch[i].alertNumber = batch[j].alertNumber

\* how the call ended: committed, thrown after statements had written
\* (rolled_back), or thrown before any write (storage_failed)
IngestOutcome(repo, raw, fault) ==
  LET batch == normalizeAlerts(repo, raw)
      working == TransactionBody(Db, existingRows(Db, repo), repo, batch, now, 1, fault)
  IN IF fault = NoFault THEN "ok"
     ELSE IF working # Db THEN "rolled_back" ELSE "storage_failed"

IngestOp(op, repo, raw, fault, ret) ==
  [OpRet(op, IngestOutcome(repo, raw, fault), ret)
     EXCEPT !.dup = HasDuplicates(normalizeAlerts(repo, raw))]

AllFaults == Faults(MaxBatch)

RefreshOne(batches, repo) ==
  /\ \E fetched \in FetchOutcomes(batches) :
       IF fetched = <<>>
       THEN /\ UNCHANGED <<store, ingested>>
            /\ lastOp' = Op("refreshOne", "fetch_failed")
       ELSE \E fault \in AllFaults :
              /\ Ingest(repo, fetched[1], fault)
              /\ lastOp' = IngestOp("refreshOne", repo, fetched[1], fault, <<>>)
  /\ UNCHANGED <<now, runs, schedulerState>>

(* ---------------------------------------------------------------------- *)
(* CLI: loadRepoAlerts(db, repo, refresh)                                  *)
(* ---------------------------------------------------------------------- *)
\* what a call of loadRepoAlerts leaves behind: the arguments it was given
\* and the value it returned, <<>> when it returned null or threw
LoadRet(repo, refresh, returned) ==
  <<[repo |-> repo, refresh |-> refresh, returned |-> returned]>>

\* variant: only --refresh makes the call fetch
shouldFetchRefreshOnly(refresh, cached) == refresh

\* if (refresh || !cached.hasCache)
shouldFetch(refresh, cached) == refresh \/ ~cached.hasCache

loadRepoAlerts(batches, repo, refresh) ==
  LET cached == getCachedAlerts(Db, repo)
      usedCache == ~refresh /\ cached.hasCache
  IN /\ IF shouldFetch(refresh, cached)
        THEN \E fetched \in FetchOutcomes(batches) :
               IF fetched = <<>>
               THEN \* fetch failed: fall back to the cache or give up
                    /\ UNCHANGED <<store, ingested>>
                    /\ lastOp' =
                         IF cached.hasCache
                         THEN OpRet("load", "fetch_failed_cache",
                                    LoadRet(repo, refresh, <<[alerts |-> cached.alerts,
                                                        lastSync |-> cached.lastSync,
                                                        usedCache |-> TRUE]>>))
                         ELSE OpRet("load", "fetch_failed", LoadRet(repo, refresh, <<>>))
               ELSE \E fault \in AllFaults :
                      /\ Ingest(repo, fetched[1], fault)
                      /\ lastOp' =
                           IngestOp("load", repo, fetched[1], fault,
                             LoadRet(repo, refresh,
                               IF fault = NoFault
                               THEN <<[alerts |-> normalizeAlerts(repo, fetched[1]),
                                       lastSync |-> <<now>>,
                                       usedCache |-> FALSE]>>
                               ELSE <<>>))
        ELSE /\ UNCHANGED <<store, ingested>>
             /\ lastOp' = OpRet("load", "cache",
                                LoadRet(repo, refresh, <<[alerts |-> cached.alerts,
                                                    lastSync |-> cached.lastSync,
                                                    usedCache |-> usedCache]>>))
     /\ UNCHANGED <<now, runs, schedulerState>>

(* ---------------------------------------------------------------------- *)
(* DELETE /api/repos/:owner/:name and POST /api/setup/reset                *)
(* ---------------------------------------------------------------------- *)
\* variant: the repository's history events are left behind
removeRepoKeepsHistory(db, repo) ==
  [db EXCEPT
     !.alerts = {r \in db.alerts : r.repo # repo},
     !.repo_sync = {r \in db.repo_sync : r.repo # repo}]

removeRepo(db, repo) ==
  [db EXCEPT
     !.alerts = {r \in db.alerts : r.repo # repo},
     !.repo_sync = {r \in db.repo_sync : r.repo # repo},
     !.alert_history = SelectSeq(db.alert_history, LAMBDA h : h.repo # repo)]

clearDatabase(db) ==
  [db EXCEPT !.alerts = {}, !.repo_sync = {}, !.alert_history = <<>>]

RemoveRepoRoute(repo) ==
  /\ SetDb(removeRepo(Db, repo))
  /\ ingested' = ingested \ {repo}
  /\ lastOp' = OpRet("removeRepo", "ok", <<repo>>)
  /\ UNCHANGED <<now, runs, schedulerState>>

ResetRoute ==
  /\ SetDb(clearDatabase(Db))
  /\ ingested' = {}
  /\ lastOp' = Op("clearDatabase", "ok")
  /\ UNCHANGED <<now, runs, schedulerState>>

(* ---------------------------------------------------------------------- *)
(* GET /api/repos/:owner/:name/alerts                                      *)
(* ---------------------------------------------------------------------- *)
\* variant: the read records a sync row for the repository
GetRepoAlertsRouteCreatesSync(repo) ==
  /\ SetDb([Db EXCEPT !.repo_sync = UpsertSync(Db.repo_sync, repo, now)])
  /\ lastOp' = Op("read", IF getCachedAlerts(Db, repo).hasCache THEN "cache" ELSE "none")
  /\ UNCHANGED <<now, runs, schedulerState, ingested>>

GetRepoAlertsRoute(repo) ==
  /\ lastOp' = Op("read", IF getCachedAlerts(Db, repo).hasCache THEN "cache" ELSE "none")
  /\ UNCHANGED <<store, now, runs, schedulerState, ingested>>

(* ---------------------------------------------------------------------- *)
(* Current-state views                                                     *)
(* ---------------------------------------------------------------------- *)
\* String.prototype.toLowerCase on the severities the model fetches
toLowerCase(s) ==
  CASE s = "High" -> "high"
    [] s = "CRITICAL" -> "critical"
    [] OTHER -> s

SEVERITY_ORDER == <<"critical", "high", "medium", "low", "unknown">>

\* Array.prototype.indexOf, counting from 0; -1 when absent
indexOf(list, x) ==
  IF \E i \in DOMAIN list : list[i] = x
  THEN (CHOOSE i \in DOMAIN list : list[i] = x /\ \A j \in DOMAIN list : list[j] = x => i <= j) - 1
  ELSE -1

\* String(createdAt ?? ""): timestamps order as their instants, "" before all
CreatedKey(alert) == IF alert.createdAt = <<>> THEN -1 ELSE alert.createdAt[1]

\* variant: the tie-break puts the oldest alert first
compareAlertsOldestFirst(a, b) ==
  LET aIndex == indexOf(SEVERITY_ORDER, toLowerCase(a.severity))
      bIndex == indexOf(SEVERITY_ORDER, toLowerCase(b.severity))
  IN IF aIndex # bIndex
     THEN (IF aIndex = -1 THEN 999 ELSE aIndex) - (IF bIndex = -1 THEN 999 ELSE bIndex)
     ELSE CreatedKey(a) - CreatedKey(b)

\* the comparator of sortAlerts: negative when a sorts before b
compareAlerts(a, b) ==
  LET aIndex == indexOf(SEVERITY_ORDER, toLowerCase(a.severity))
      bIndex == indexOf(SEVERITY_ORDER, toLowerCase(b.severity))
  IN IF aIndex # bIndex
     THEN (IF aIndex = -1 THEN 999 ELSE aIndex) - (IF bIndex = -1 THEN 999 ELSE bIndex)
     ELSE CreatedKey(b) - CreatedKey(a)

\* Array.prototype.sort is stable: x goes after the elements that do not
\* sort after it
InsertSorted(sorted, x) ==
  LET before == {i \in DOMAIN sorted : compareAlerts(sorted[i], x) <= 0}
      at == IF before = {} THEN 0 ELSE CHOOSE i \in before : \A j \in before : j <= i
  IN SubSeq(sorted, 1, at) \o <<x>> \o SubSeq(sorted, at + 1, Len(sorted))

RECURSIVE sortFrom(_, _, _)
sortFrom(list, i, sorted) ==
  IF i > Len(list) THEN sorted
  ELSE sortFrom(list, i + 1, InsertSorted(sorted, list[i]))

sortAlerts(list) == sortFrom(list, 1, <<>>)

\* the orders in which a SELECT without ORDER BY can return the rows
RECURSIVE RowOrders(_)
RowOrders(rows) ==
  IF rows = {} THEN {<<>>}
  ELSE UNION {{<<r>> \o rest : rest \in RowOrders(rows \ {r})} : r \in rows}

\* getRepoAlerts, for the order in which the rows were read
getRepoAlerts(db, repo, order) ==
  LET cached == getCachedAlerts(db, repo)
  IN [alerts |-> sortAlerts(order), lastSync |-> cached.lastSync]

\* WHERE state = 'open'
OpenAlerts(db) == {a \in db.alerts : a.state = "open"}

DistinctRepos(rows) == Cardinality({a.repo : a \in rows})

\* getVulnerabilityGroups: the rows, before ORDER BY
getVulnerabilityGroups(db) ==
  LET rows == {a \in OpenAlerts(db) : a.ghsaId # <<>>}
  IN {LET group == {a \in rows : a.ghsaId = k}
      IN [ghsaId |-> k[1],
          affectedRepos |-> DistinctRepos(group),
          totalAlerts |-> Cardinality(group)]
      : k \in {a.ghsaId : a \in rows}}

\* getDependencyLandscape: the rows, before ORDER BY
getDependencyLandscape(db) ==
  LET rows == {a \in OpenAlerts(db) : a.packageName # <<>>}
  IN {LET group == {a \in rows : <<a.packageName, a.ecosystem>> = k}
      IN [packageName |-> k[1][1],
          ecosystem |-> k[2],
          totalAlerts |-> Cardinality(group),
          affectedRepos |-> DistinctRepos(group),
          criticalCount |-> Cardinality({a \in group : a.severity = "critical"}),
          highCount |-> Cardinality({a \in group : a.severity = "high"})]
      : k \in {<<a.packageName, a.ecosystem>> : a \in rows}}

\* variant: the WHERE clause does not test the state
getEcosystemBreakdownAllStates(db) ==
  LET rows == {a \in db.alerts : a.ecosystem # <<>>}
  IN {LET group == {a \in rows : a.ecosystem = k}
      IN [ecosystem |-> k[1],
          totalAlerts |-> Cardinality(group),
          affectedRepos |-> DistinctRepos(group),
          uniquePackages |-> Cardinality({a.packageName : a \in group} \ {<<>>})]
      : k \in {a.ecosystem : a \in rows}}

\* getEcosystemBreakdown: the rows, before ORDER BY
getEcosystemBreakdown(db) ==
  LET rows == {a \in OpenAlerts(db) : a.ecosystem # <<>>}
  IN {LET group == {a \in rows : a.ecosystem = k}
      IN [ecosystem |-> k[1],
          totalAlerts |-> Cardinality(group),
          affectedRepos |-> DistinctRepos(group),
          uniquePackages |-> Cardinality({a.packageName : a \in group} \ {<<>>})]
      : k \in {a.ecosystem : a \in rows}}

\* the GET routes of the analytics and listing views: SELECT statements only
ReadViews == {"summary", "repos", "trends", "mttr", "history", "sla",
              "vulnerabilities", "dependencies", "ecosystems"}

AnalyticsRoute(view) ==
  /\ lastOp' = Op("read", "none")
  /\ UNCHANGED <<store, now, runs, schedulerState, ingested>>

(* ---------------------------------------------------------------------- *)
(* History analytics                                                       *)
(* ---------------------------------------------------------------------- *)
DEFAULT_SLA_LIMITS == [critical |-> 2, high |-> 7, medium |-> 30, low |-> 90]

\* date(recorded_at): the calendar day of an instant
date(t) == t \div UnitsPerDay

\* Math.round(v * 10) / 10 for v = units / UnitsPerDay days averaged over n
\* samples; the result is counted in tenths of a day
RoundTenths(units, n) == (10 * 2 * units + UnitsPerDay * n) \div (2 * UnitsPerDay * n)

RECURSIVE Sum(_, _)
\* the sum of f over the finite set S
Sum(f, S) ==
  IF S = {} THEN 0
  ELSE LET x == CHOOSE x \in S : TRUE IN f[x] + Sum(f, S \ {x})

\* the rows of alert_history as a set
HistoryRows(db) == {db.alert_history[k] : k \in DOMAIN db.alert_history}

\* (repo = @repo OR @repo IS NULL): repoFilter is <<>> or <<repo>>
InFilter(repo, repoFilter) == repoFilter = <<>> \/ repo = repoFilter[1]

\* the SELECT of getTrendData, before ORDER BY
trendRows(db, repoFilter) ==
  LET open == {h \in HistoryRows(db) : h.state = "open" /\ InFilter(h.repo, repoFilter)}
  IN {[day |-> k[1], severity |-> k[2],
       count |-> Cardinality({h.alertNumber : h \in
                   {g \in open : date(g.recordedAt) = k[1] /\ g.severity = k[2]}})]
      : k \in {<<date(h.recordedAt), h.severity>> : h \in open}}

\* the severities a TrendPoint counts
TrendKeys == {"critical", "high", "medium", "low"}

\* ORDER BY day: the orders in which the rows can come back
trendRowOrders(db, repoFilter) ==
  {o \in RowOrders(trendRows(db, repoFilter)) :
     \A i, j \in DOMAIN o : i < j => o[i].day <= o[j].day}

\* the loop of getTrendData over rows[i..]: dayMap holds the points in the
\* order their days were first met
RECURSIVE dayMapFrom(_, _, _)
dayMapFrom(rows, i, dayMap) ==
  IF i > Len(rows) THEN dayMap
  ELSE LET row == rows[i]
           withPoint ==
             IF \E k \in DOMAIN dayMap : dayMap[k].day = row.day
             THEN dayMap
             ELSE Append(dayMap, [day |-> row.day, critical |-> 0, high |-> 0,
                                  medium |-> 0, low |-> 0])
           at == CHOOSE k \in DOMAIN withPoint : withPoint[k].day = row.day
           key == toLowerCase(row.severity)
       IN dayMapFrom(rows, i + 1,
            IF key \in TrendKeys
            THEN [withPoint EXCEPT ![at][key] = row.count]
            ELSE withPoint)

\* getTrendData, for the order in which the rows were read
getTrendData(rows) == dayMapFrom(rows, 1, <<>>)

\* the events of one alert
eventsOfAlert(db, repo, alertNumber) ==
  {h \in HistoryRows(db) : h.repo = repo /\ h.alertNumber = alertNumber}

\* id = (SELECT MIN(id) ...): the rows of events with the least id (none or
\* one)
minId(events) == {h \in events : \A g \in events : h.id <= g.id}

\* the first event of an alert with a state in states
firstEvent(db, repo, alertNumber, states) ==
  minId({h \in eventsOfAlert(db, repo, alertNumber) : h.state \in states})

\* the join of getMttrMetrics: one row per alert with a first open event h1
\* and a first fixed or dismissed event h2
mttrJoin(db, repoFilter) ==
  {[repo |-> h1.repo, alertNumber |-> h1.alertNumber, severity |-> h1.severity,
    days |-> h2.recordedAt - h1.recordedAt]
   : <<h1, h2>> \in
       {p \in HistoryRows(db) \X HistoryRows(db) :
          /\ p[1].repo = p[2].repo /\ p[1].alertNumber = p[2].alertNumber
          /\ p[1] \in firstEvent(db, p[1].repo, p[1].alertNumber, {"open"})
          /\ p[2] \in firstEvent(db, p[1].repo, p[1].alertNumber, {"fixed", "dismissed"})
          /\ InFilter(p[1].repo, repoFilter)}}

\* getMttrMetrics: one row per group of GROUP BY h1.repo, h1.severity, read
\* through mttrRowSchema; avgDays is counted in tenths of a day
getMttrMetrics(db, repoFilter) ==
  LET joined == mttrJoin(db, repoFilter)
      groups == {<<j.repo, j.severity>> : j \in joined}
  IN [g \in groups |->
        LET members == {j \in joined : j.repo = g[1] /\ j.severity = g[2]}
            days == [j \in members |-> j.days]
        IN [repo |-> g[1],
            severity |-> toLowerCase(g[2]),
            avgDays |-> RoundTenths(Sum(days, members), Cardinality(members)),
            resolvedCount |-> Cardinality(members)]]

\* the limit tables a caller can pass: none, or one that overrides a severity
SlaConfigs == {<<>>, [critical |-> 1]}

\* { ...DEFAULT_SLA_LIMITS, ...slaConfig }
mergeLimits(slaConfig) ==
  [k \in DOMAIN DEFAULT_SLA_LIMITS \cup DOMAIN slaConfig |->
     IF k \in DOMAIN slaConfig THEN slaConfig[k] ELSE DEFAULT_SLA_LIMITS[k]]

\* limits[severity] ?? 90
limitOf(limits, severity) ==
  IF severity \in DOMAIN limits THEN limits[severity] ELSE DEFAULT_SLA_LIMITS.low

\* variant: every alert row is checked, whatever its state
slaRowsAllStates(db) ==
  {[alert |-> a, first |-> h] : <<a, h>> \in
     {p \in db.alerts \X HistoryRows(db) :
        p[2] \in minId(eventsOfAlert(db, p[1].repo, p[1].alertNumber))}}

\* the SELECT of getSlaViolations: the open alert rows joined with the first
\* event of their key
slaRows(db) ==
  {[alert |-> a, first |-> h] : <<a, h>> \in
     {p \in {a \in db.alerts : a.state = "open"} \X HistoryRows(db) :
        p[2] \in minId(eventsOfAlert(db, p[1].repo, p[1].alertNumber))}}

\* getSlaViolations at instant t, before the sort; openDays is counted in
\* tenths of a day, slaLimitDays in days
getSlaViolations(db, slaConfig, t) ==
  LET limits == mergeLimits(slaConfig)
  IN {LET severity == toLowerCase(row.alert.severity)
          slaLimitDays == limitOf(limits, severity)
          openDays == RoundTenths(t - row.first.recordedAt, 1)
      IN [repo |-> row.alert.repo,
          alertNumber |-> row.alert.alertNumber,
          severity |-> severity,
          firstSeen |-> row.first.recordedAt,
          openDays |-> openDays,
          slaLimitDays |-> slaLimitDays,
          overdue |-> openDays > 10 * slaLimitDays]
      : row \in slaRows(db)}

\* time passes between two requests
ClockAdvance(t) ==
  /\ t > now
  /\ now' = t
  /\ UNCHANGED <<store, runs, schedulerState, ingested, lastOp>>

(* ---------------------------------------------------------------------- *)
(* refreshAllRepos: one fetch at a time, a stagger delay between two       *)
(* ---------------------------------------------------------------------- *)
CountSuccess(results, success) ==
  Cardinality({k \in DOMAIN results : results[k].success = success})

\* the value refreshAllRepos returns
RefreshResult(repos, results) ==
  [refreshed |-> CountSuccess(results, TRUE),
   failed |-> CountSuccess(results, FALSE),
   total |-> Len(repos),
   results |-> results]

\* the run record right after the call: the repository list is read once
StartRun(db, entry) ==
  LET repos == getAllRepoSummaries(db)
  IN [pc |-> IF repos = <<>> THEN "return" ELSE "fetch",
      entry |-> entry, repos |-> repos, i |-> 1,
      results |-> <<>>, startTime |-> now, delays |-> 0]

\* variant: the loop is left at the first failed attempt
AfterAttemptStopsOnFailure(run, success) ==
  LET results == Append(run.results, [repo |-> run.repos[run.i], success |-> success])
  IN [run EXCEPT !.results = results,
                 !.pc = IF success /\ run.i < Len(run.repos) THEN "delay" ELSE "return"]

\* variant: the next fetch is issued without a stagger delay
AfterAttemptNoDelay(run, success) ==
  LET results == Append(run.results, [repo |-> run.repos[run.i], success |-> success])
  IN IF run.i < Len(run.repos)
     THEN [run EXCEPT !.results = results, !.pc = "fetch", !.i = @ + 1]
     ELSE [run EXCEPT !.results = results, !.pc = "return"]

\* the run record after the attempt on repos[i] ended with success or not
AfterAttempt(run, success) ==
  LET results == Append(run.results, [repo |-> run.repos[run.i], success |-> success])
  IN [run EXCEPT !.results = results,
                 !.pc = IF run.i < Len(run.repos) THEN "delay" ELSE "return"]

\* what a run that reached its return statement hands back, <<>> otherwise;
\* repos is the list the run read at its start
Returned(run) ==
  IF run.pc = "return"
  THEN <<[result |-> RefreshResult(run.repos, run.results), repos |-> run.repos]>>
  ELSE <<>>

\* the slot of a run: freed once the run has returned
Settle(run) == IF run.pc = "return" THEN IdleRun ELSE run

\* the cron callback's finally block, once its refreshAllRepos has returned
SchedulerAfter(run) ==
  IF run.entry = "cron" /\ run.pc = "return"
  THEN LET result == RefreshResult(run.repos, run.results)
       IN [running |-> FALSE,
           lastRun |-> <<run.startTime>>,
           lastResult |-> <<[refreshed |-> result.refreshed,
                             failed |-> result.failed,
                             total |-> result.total]>>,
           nextRun |-> getNextRunDate(now)]
  ELSE schedulerState

\* the slot a new invocation takes
FreeSlot(r) == runs[r].pc = "idle" /\ \A q \in RunSlots : q < r => runs[q].pc # "idle"

\* POST /api/repos/refresh-all
RefreshAllRoute(r) ==
  /\ FreeSlot(r)
  /\ LET run == StartRun(Db, "api")
     IN /\ runs' = [runs EXCEPT ![r] = Settle(run)]
        /\ lastOp' = OpRet("refreshAll", "started", Returned(run))
  /\ UNCHANGED <<store, now, schedulerState, ingested>>

\* variant: the callback does not test the running flag
CronTickNoGuard ==
  \E r \in RunSlots :
    /\ FreeSlot(r)
    /\ LET run == StartRun(Db, "cron")
       IN /\ runs' = [runs EXCEPT ![r] = Settle(run)]
          /\ schedulerState' =
               IF run.pc = "return"
               THEN SchedulerAfter(run)
               ELSE [schedulerState EXCEPT !.running = TRUE]
          /\ lastOp' = OpRet("cronTick", "started", Returned(run))
    /\ UNCHANGED <<store, now, ingested>>

\* variant: the flag is not cleared when the run throws
CronTickNoFinally ==
  IF schedulerState.running
  THEN /\ lastOp' = Op("cronTick", "skipped")
       /\ UNCHANGED <<store, now, runs, schedulerState, ingested>>
  ELSE \/ \E r \in RunSlots :
            /\ FreeSlot(r)
            /\ LET run == StartRun(Db, "cron")
               IN /\ runs' = [runs EXCEPT ![r] = Settle(run)]
                  /\ schedulerState' =
                       IF run.pc = "return"
                       THEN SchedulerAfter(run)
                       ELSE [schedulerState EXCEPT !.running = TRUE]
                  /\ lastOp' = OpRet("cronTick", "started", Returned(run))
            /\ UNCHANGED <<store, now, ingested>>
       \/ /\ schedulerState' = [schedulerState EXCEPT !.running = TRUE]
          /\ lastOp' = Op("cronTick", "threw")
          /\ UNCHANGED <<store, now, runs, ingested>>

\* the cron callback registered by startScheduler
CronTick ==
  IF schedulerState.running
  THEN /\ lastOp' = Op("cronTick", "skipped")
       /\ UNCHANGED <<store, now, runs, schedulerState, ingested>>
  ELSE \/ \E r \in RunSlots :
            /\ FreeSlot(r)
            /\ LET run == StartRun(Db, "cron")
               IN /\ runs' = [runs EXCEPT ![r] = Settle(run)]
                  /\ schedulerState' =
                       IF run.pc = "return"
                       THEN SchedulerAfter(run)
                       ELSE [schedulerState EXCEPT !.running = TRUE]
                  /\ lastOp' = OpRet("cronTick", "started", Returned(run))
            /\ UNCHANGED <<store, now, ingested>>
       \/ \* refreshAllRepos threw while it read the repository list: the
          \* flag set before the call is cleared by the finally block
          /\ schedulerState' = [schedulerState EXCEPT !.running = FALSE]
          /\ lastOp' = Op("cronTick", "threw")
          /\ UNCHANGED <<store, now, runs, ingested>>

\* variant: a null fetch is ingested as an empty alert list
RunAttemptIngestsNull(batches, r) ==
  LET run == runs[r]
      repo == run.repos[run.i]
      Done(success, op) ==
        LET after == AfterAttempt(run, success)
        IN /\ runs' = [runs EXCEPT ![r] = Settle(after)]
           /\ schedulerState' = SchedulerAfter(after)
           /\ lastOp' = [op EXCEPT !.ret = Returned(after)]
  IN /\ run.pc = "fetch"
     /\ UNCHANGED now
     /\ \/ /\ UNCHANGED <<store, ingested>>
           /\ Done(FALSE, Op("runAttempt", "threw"))
        \/ \E fetched \in FetchOutcomes(batches) :
             IF fetched = <<>>
             THEN /\ Ingest(repo, <<>>, NoFault)
                  /\ Done(FALSE, Op("runAttempt", "fetch_failed"))
             ELSE \E fault \in AllFaults :
                    /\ Ingest(repo, fetched[1], fault)
                    /\ Done(fault = NoFault,
                            IngestOp("runAttempt", repo, fetched[1], fault, <<>>))

\* the awaited fetch for repos[i] settles; the rest of the iteration runs
RunAttempt(batches, r) ==
  LET run == runs[r]
      repo == run.repos[run.i]
      Done(success, op) ==
        LET after == AfterAttempt(run, success)
        IN /\ runs' = [runs EXCEPT ![r] = Settle(after)]
           /\ schedulerState' = SchedulerAfter(after)
           /\ lastOp' = [op EXCEPT !.ret = Returned(after)]
  IN /\ run.pc = "fetch"
     /\ UNCHANGED now
     /\ \/ \* the fetch or the normalizer threw
           /\ UNCHANGED <<store, ingested>>
           /\ Done(FALSE, Op("runAttempt", "threw"))
        \/ \E fetched \in FetchOutcomes(batches) :
             IF fetched = <<>>
             THEN /\ UNCHANGED <<store, ingested>>
                  /\ Done(FALSE, Op("runAttempt", "fetch_failed"))
             ELSE \E fault \in AllFaults :
                    /\ Ingest(repo, fetched[1], fault)
                    /\ Done(fault = NoFault,
                            IngestOp("runAttempt", repo, fetched[1], fault, <<>>))

\* the stagger delay elapses and the next fetch is issued
RunDelay(r) ==
  /\ runs[r].pc = "delay"
  /\ runs' = [runs EXCEPT ![r] = [@ EXCEPT !.pc = "fetch", !.i = @ + 1,
                                           !.delays = @ + 1]]
  /\ lastOp' = Op("runDelay", "none")
  /\ UNCHANGED <<store, now, schedulerState, ingested>>

(* ---------------------------------------------------------------------- *)
(* Properties                                                              *)
(* ---------------------------------------------------------------------- *)
Pair(a) == <<a.state, a.severity>>

\* the (state, severity) recorded for batch[i]'s key when the loop reaches
\* it: that of the latest earlier record of the batch with the same number,
\* else that of the alert row; empty when nothing was recorded
RecordedBefore(rows, batch, i) ==
  LET earlier == {j \in 1..(i - 1) : batch[j].alertNumber = batch[i].alertNumber}
  IN IF earlier # {}
     THEN {Pair(batch[CHOOSE j \in earlier : \A k \in earlier : k <= j])}
     ELSE {Pair(r) : r \in {x \in rows : x.alertNumber = batch[i].alertNumber}}

\* the records of the batch whose pair differs from what was recorded
ChangesOf(rows, batch) ==
  {i \in DOMAIN batch : Pair(batch[i]) \notin RecordedBefore(rows, batch, i)}

\* C1: an ingest appends exactly one history event for every incoming record
\* whose (state, severity) differs from the pair previously recorded for its
\* (repo, alertNumber), or that has no recorded pair, and none for the others.
C1_ChangeOnlyHistory ==
  \A repo \in Repos, raw \in RawBatches :
    LET batch == normalizeAlerts(repo, raw)
        after == saveAlerts(Db, repo, batch, now, NoFault)
    IN Len(after.alert_history) - Len(alert_history)
         = Cardinality(ChangesOf({r \in alerts : r.repo = repo}, batch))

\* C2: ingesting the same alert list twice in succession appends no history
\* event during the second call and leaves the repository's alert rows as the
\* first call left them, for any alert list and from any reachable state.
C2_Idempotent ==
  \A repo \in Repos, raw \in RawBatches :
    LET batch == normalizeAlerts(repo, raw)
        first == saveAlerts(Db, repo, batch, now, NoFault)
        second == saveAlerts(first, repo, batch, now, NoFault)
    IN /\ second.alert_history = first.alert_history
       /\ {r \in second.alerts : r.repo = repo} = {r \in first.alerts : r.repo = repo}

\* C3: an ingest call that fails, at any record, at a history insert, at an
\* upsert, at the sync write or at the commit, leaves alerts, repo_sync and
\* alert_history exactly as they were before the call.
C3_AllOrNothing ==
  [][lastOp'.outcome \in {"rolled_back", "storage_failed"}
       => UNCHANGED <<alerts, repo_sync, alert_history>>]_vars

\* a call has thrown after its statements had written, over a non-empty cache
C3_Witness ==
  /\ lastOp.outcome = "rolled_back"
  /\ alerts # {}
  /\ alert_history # <<>>

SameKey(a, b) == a.repo = b.repo /\ a.alertNumber = b.alertNumber

\* the positions in alert_history of the events of the row's key
EventsOf(row) == {k \in DOMAIN alert_history : SameKey(alert_history[k], row)}

\* C4: every alert row has at least one history event, the most recently
\* appended event of its key carries the row's (state, severity), and every
\* history event's key has an alert row.
C4_HistoryMatchesState ==
  /\ \A row \in alerts :
       /\ EventsOf(row) # {}
       /\ \A k \in EventsOf(row) :
            (\A j \in EventsOf(row) : j <= k) => Pair(alert_history[k]) = Pair(row)
  /\ \A k \in DOMAIN alert_history :
       \E row \in alerts : SameKey(alert_history[k], row)

\* C5: at no time are two refresh-all runs in progress together, whichever
\* entry point (cron callback or POST /api/repos/refresh-all) started them.
C5_OneBulkRun ==
  Cardinality({r \in RunSlots : runs[r].pc # "idle"}) <= 1

\* C6: when the fetch for a repository returns null, in the single-repository
\* refresh, in a refresh-all run or in the CLI load path, the alert rows, the
\* history events and the sync records of every repository are unchanged.
C6_NullFetchNoIngest ==
  [][lastOp'.outcome \in {"fetch_failed", "fetch_failed_cache"}
       => UNCHANGED <<alerts, repo_sync, alert_history>>]_vars

\* a refresh-all attempt got a null fetch while a cache with alert rows existed
C6_Witness ==
  /\ lastOp.op = "runAttempt"
  /\ lastOp.outcome = "fetch_failed"
  /\ alerts # {}
  /\ repo_sync # {}

\* the list is in ascending order without repetition
Ascending(repos) ==
  \A j, k \in DOMAIN repos : j < k => repos[j] < repos[k]

\* a run in flight has one result per repository attempted so far, in order
RunProgress(run) ==
  /\ run.pc = "fetch" => Len(run.results) = run.i - 1
  /\ run.pc = "delay" => Len(run.results) = run.i
  /\ run.pc # "idle" => run.i \in 1..Len(run.repos)
  /\ \A k \in DOMAIN run.results : run.results[k].repo = run.repos[k]

\* what a finished run returned: one entry per repository of its list, in
\* the list's order, and counts that add up
RunReturn(ret) ==
  ret # <<>> =>
    LET result == ret[1].result
        repos == ret[1].repos
    IN /\ Len(result.results) = Len(repos)
       /\ \A k \in DOMAIN repos : result.results[k].repo = repos[k]
       /\ result.total = Len(repos)
       /\ result.refreshed + result.failed = result.total
       /\ result.refreshed =
            Cardinality({k \in DOMAIN repos : result.results[k].success})

\* a call reads the repositories that have a sync record, in listing order
RunStart ==
  lastOp'.outcome = "started" =>
    /\ \A r \in RunSlots :
         (runs[r].pc = "idle" /\ runs'[r].pc # "idle") =>
           /\ Ascending(runs'[r].repos)
           /\ {runs'[r].repos[k] : k \in DOMAIN runs'[r].repos}
                = {s.repo : s \in repo_sync}
    /\ lastOp'.ret # <<>> => repo_sync = {}

\* C7: a refresh-all run attempts every repository that had a sync record at
\* its start exactly once, in listing order, whatever the outcome of the
\* other attempts; its result has one entry per repository, total = n and
\* refreshed + failed = total.
C7_EveryRepoOnce ==
  [][/\ RunStart
     /\ \A r \in RunSlots : RunProgress(runs'[r])
     /\ lastOp'.op \notin {"removeRepo", "load"} => RunReturn(lastOp'.ret)]_vars

\* a run over two repositories returned after its first attempt had failed
\* and its second had succeeded
C7_Witness ==
  /\ lastOp.op = "runAttempt"
  /\ lastOp.ret # <<>>
  /\ lastOp.ret[1].result.total = 2
  /\ lastOp.ret[1].result.failed = 1
  /\ lastOp.ret[1].result.refreshed = 1
  /\ ~lastOp.ret[1].result.results[1].success

\* C8: hasCache is true exactly when the repository has a sync record, which
\* is exactly when an ingest for it has committed (even with an empty list)
\* and it was not removed since; when hasCache is false the alert list is
\* empty, lastSync is null and the repository has no alert row.
C8_HasCacheIffSynced ==
  \A repo \in Repos :
    LET cached == getCachedAlerts(Db, repo)
    IN /\ cached.hasCache <=> (\E s \in repo_sync : s.repo = repo)
       /\ cached.hasCache <=> repo \in ingested
       /\ ~cached.hasCache =>
            /\ cached.alerts = {}
            /\ cached.lastSync = <<>>
            /\ \A row \in alerts : row.repo # repo

\* one repository is cached after an ingest of an empty list, the other one
\* is not cached
C8_Witness ==
  \E repo, other \in Repos :
    /\ getCachedAlerts(Db, repo).hasCache
    /\ getCachedAlerts(Db, repo).alerts = {}
    /\ ~getCachedAlerts(Db, other).hasCache
    /\ lastOp.op = "refreshOne"
    /\ lastOp.outcome = "ok"

\* C9: an operation other than removeRepo and the reset keeps every history
\* event in place and unmodified, and gives each event it appends an id
\* strictly greater than the ids of all earlier events.
C9_HistoryOnlyGrows ==
  [][lastOp'.op \notin {"removeRepo", "clearDatabase"} =>
       /\ Len(alert_history) <= Len(alert_history')
       /\ \A k \in DOMAIN alert_history : alert_history'[k] = alert_history[k]
       /\ \A k \in (Len(alert_history) + 1)..Len(alert_history') :
            \A j \in 1..(k - 1) : alert_history'[j].id < alert_history'[k].id]_vars

\* an ingest has appended an event after a removal had deleted earlier ones
C9_Witness ==
  /\ lastOp.outcome = "ok"
  /\ alert_history # <<>>
  /\ alert_history[Len(alert_history)].id = seq
  /\ Len(alert_history) < seq

\* C10: there is at most one alert row per (repo, alertNumber), also after a
\* batch that holds two records with the same alertNumber.
C10_OneRowPerKey ==
  \A a, b \in alerts : SameKey(a, b) => a = b

\* a batch with a repeated alertNumber has committed and both repositories
\* have a row
C10_Witness ==
  /\ lastOp.dup
  /\ lastOp.outcome = "ok"
  /\ Cardinality(alerts) = 2

\* the rows, events and sync record of a repository in a database
RowsOf(db, repo) ==
  [alerts |-> {r \in db.alerts : r.repo = repo},
   sync |-> {r \in db.repo_sync : r.repo = repo},
   history |-> SelectSeq(db.alert_history, LAMBDA h : h.repo = repo)]

NoRows == [alerts |-> {}, sync |-> {}, history |-> <<>>]

\* the database after the step
DbAfter == [alerts |-> alerts', repo_sync |-> repo_sync',
            alert_history |-> alert_history', seq |-> seq']

\* C16: after removeRepo(repo) no alert row, history event or sync record of
\* repo remains, hasCache(repo) is false and repo is no longer listed, while
\* the rows of every other repository are unchanged; after the reset the
\* three stores are empty.
C16_RemovalScoped ==
  [][/\ lastOp'.op = "removeRepo" =>
          LET repo == lastOp'.ret[1]
          IN /\ RowsOf(DbAfter, repo) = NoRows
             /\ ~getCachedAlerts(DbAfter, repo).hasCache
             /\ \A k \in DOMAIN getAllRepoSummaries(DbAfter) :
                  getAllRepoSummaries(DbAfter)[k] # repo
             /\ \A other \in Repos \ {repo} :
                  RowsOf(DbAfter, other) = RowsOf(Db, other)
     /\ lastOp'.op = "clearDatabase" =>
          alerts' = {} /\ repo_sync' = {} /\ alert_history' = <<>>]_vars

\* a repository that had history events was removed while the other one
\* keeps its alert row, its event and its sync record
C16_Witness ==
  /\ lastOp.op = "removeRepo"
  /\ Len(alert_history) < seq
  /\ \E other \in Repos \ {lastOp.ret[1]} :
       /\ RowsOf(Db, other).alerts # {}
       /\ RowsOf(Db, other).history # <<>>
       /\ RowsOf(Db, other).sync # {}

\* C20: a cron tick that fires while a cycle started by the scheduler is
\* still running performs no fetch and no ingestion and leaves running,
\* lastRun, lastResult and nextRun unchanged.
C20_TickSkipped ==
  [][(/\ lastOp'.op = "cronTick"
      /\ \E r \in RunSlots : runs[r].pc # "idle" /\ runs[r].entry = "cron")
       => /\ lastOp'.outcome = "skipped"
          /\ UNCHANGED <<alerts, repo_sync, alert_history, runs, schedulerState>>]_vars

\* a tick was skipped while a cycle was running, after an earlier cycle had
\* completed
C20_Witness ==
  /\ lastOp.op = "cronTick"
  /\ lastOp.outcome = "skipped"
  /\ schedulerState.running
  /\ schedulerState.lastResult # <<>>
  /\ \E r \in RunSlots : runs[r].entry = "cron" /\ runs[r].pc # "idle"

\* the alert rows whose state is open
OpenRows == {a \in alerts : a.state = "open"}

\* C15: each cross-repository aggregation (by advisory id, by package name
\* and ecosystem, by ecosystem) has exactly one row per key that has an open
\* alert and none for any other key; totalAlerts is the number of open
\* alerts of the key and affectedRepos the number of distinct repositories
\* among them.
C15_GroupsOverOpenAlerts ==
  LET vulns == getVulnerabilityGroups(Db)
      deps == getDependencyLandscape(Db)
      ecos == getEcosystemBreakdown(Db)
      ByGhsa(k) == {a \in OpenRows : a.ghsaId = <<k>>}
      ByPackage(p, e) == {a \in OpenRows : a.packageName = <<p>> /\ a.ecosystem = e}
      ByEcosystem(k) == {a \in OpenRows : a.ecosystem = <<k>>}
      ghsaKeys == {a.ghsaId[1] : a \in {x \in OpenRows : x.ghsaId # <<>>}}
      packageKeys == {<<a.packageName[1], a.ecosystem>> :
                        a \in {x \in OpenRows : x.packageName # <<>>}}
      ecosystemKeys == {a.ecosystem[1] : a \in {x \in OpenRows : x.ecosystem # <<>>}}
  IN /\ {g.ghsaId : g \in vulns} = ghsaKeys
     /\ Cardinality(vulns) = Cardinality(ghsaKeys)
     /\ \A g \in vulns :
          /\ g.totalAlerts = Cardinality(ByGhsa(g.ghsaId))
          /\ g.affectedRepos = Cardinality({a.repo : a \in ByGhsa(g.ghsaId)})
     /\ {<<g.packageName, g.ecosystem>> : g \in deps} = packageKeys
     /\ Cardinality(deps) = Cardinality(packageKeys)
     /\ \A g \in deps :
          /\ g.totalAlerts = Cardinality(ByPackage(g.packageName, g.ecosystem))
          /\ g.affectedRepos =
               Cardinality({a.repo : a \in ByPackage(g.packageName, g.ecosystem)})
     /\ {g.ecosystem : g \in ecos} = ecosystemKeys
     /\ Cardinality(ecos) = Cardinality(ecosystemKeys)
     /\ \A g \in ecos :
          /\ g.totalAlerts = Cardinality(ByEcosystem(g.ecosystem))
          /\ g.affectedRepos = Cardinality({a.repo : a \in ByEcosystem(g.ecosystem)})

\* the only alert of advisory GHSA-1 went from open to fixed and its row is
\* gone from the advisory view, which still lists another advisory
C15_Witness ==
  /\ \E a \in alerts : a.ghsaId = <<"GHSA-1">> /\ a.state = "fixed"
  /\ \E k \in DOMAIN alert_history :
       alert_history[k].state = "open" /\ alert_history[k].rawJson.ghsa_id = <<"GHSA-1">>
  /\ \A g \in getVulnerabilityGroups(Db) : g.ghsaId # "GHSA-1"
  /\ getVulnerabilityGroups(Db) # {}
  /\ getEcosystemBreakdown(Db) # {}

\* C17: no read operation (current state, summaries, trend, MTTR, SLA,
\* groups, timeline) changes an alert row, a history event or a sync record.
C17_ReadsChangeNothing ==
  [][lastOp'.op = "read" => UNCHANGED <<alerts, repo_sync, alert_history>>]_vars

\* a view was read over a cache that holds rows, events and sync records
C17_Witness ==
  /\ lastOp.op = "read"
  /\ alerts # {}
  /\ alert_history # <<>>
  /\ repo_sync # {}

\* the rank of a severity: critical, high, medium, low, unknown, then the rest
SeverityRank(severity) ==
  LET lower == toLowerCase(severity)
  IN CASE lower = "critical" -> 0
       [] lower = "high" -> 1
       [] lower = "medium" -> 2
       [] lower = "low" -> 3
       [] lower = "unknown" -> 4
       [] OTHER -> 5

\* C18: the alerts returned for a repository are a permutation of its stored
\* alerts, ordered by severity rank ascending (compared case-insensitively)
\* and, among alerts of equal rank, by createdAt descending.
C18_SortedBySeverityThenNewest ==
  \A repo \in Repos :
    LET rows == getCachedAlerts(Db, repo).alerts
    IN \A order \in RowOrders(rows) :
         LET out == getRepoAlerts(Db, repo, order).alerts
         IN /\ Len(out) = Cardinality(rows)
            /\ {out[i] : i \in DOMAIN out} = rows
            /\ \A i, j \in DOMAIN out :
                 i < j =>
                   \/ SeverityRank(out[i].severity) < SeverityRank(out[j].severity)
                   \/ /\ SeverityRank(out[i].severity) = SeverityRank(out[j].severity)
                      /\ CreatedKey(out[i]) >= CreatedKey(out[j])

\* a repository holds two alerts of the same rank, written "high" and "High",
\* created at different times
C18_Witness ==
  \E repo \in Repos :
    \E a, b \in getCachedAlerts(Db, repo).alerts :
      /\ a.severity = "high"
      /\ b.severity = "High"
      /\ CreatedKey(a) < CreatedKey(b)

\* C19: every alert row and every history event has its state among open,
\* fixed, dismissed, unknown and its severity among critical, high, medium,
\* low, unknown in lower case, whatever the raw record carries.
C19_NormalizedValues ==
  \A x \in alerts \cup {alert_history[k] : k \in DOMAIN alert_history} :
    /\ x.state \in {"open", "fixed", "dismissed", "unknown"}
    /\ x.severity \in {"critical", "high", "medium", "low", "unknown"}

\* the optional repo filter of the trend and MTTR routes
RepoFilters == {<<>>} \cup {<<repo>> : repo \in Repos}

\* the positions of the open events within the filter recorded on day D or
\* before
OpenEventsBy(repoFilter, D) ==
  {k \in DOMAIN alert_history :
     /\ alert_history[k].state = "open"
     /\ InFilter(alert_history[k].repo, repoFilter)
     /\ date(alert_history[k].recordedAt) <= D}

\* the latest of the positions in events that belongs to the alert of k
LatestOf(events, k) ==
  CHOOSE m \in events :
    /\ SameKey(alert_history[m], alert_history[k])
    /\ \A j \in events : SameKey(alert_history[j], alert_history[k]) => j <= m

\* C11: for each day D with an open event recorded (within the optional repo
\* filter), the trend point for D counts, per severity, every distinct alert
\* that has an open event recorded on or before D, classified by the
\* severity of its most recent such event; an alert opened on an earlier day
\* is still counted on D.
C11_TrendCountsAlertsOpenedBefore ==
  \A repoFilter \in RepoFilters :
    \A order \in trendRowOrders(Db, repoFilter) :
      LET points == getTrendData(order)
          days == {date(alert_history[k].recordedAt) :
                     k \in OpenEventsBy(repoFilter, date(now))}
      IN /\ {points[i].day : i \in DOMAIN points} = days
         /\ \A i \in DOMAIN points :
              LET events == OpenEventsBy(repoFilter, points[i].day)
                  latest == {LatestOf(events, k) : k \in events}
              IN \A s \in TrendKeys :
                   points[i][s] =
                     Cardinality({m \in latest :
                                    toLowerCase(alert_history[m].severity) = s})

\* the position of the first event of the alert of row whose state is in
\* states: none or one
FirstOf(row, states) ==
  LET events == {k \in EventsOf(row) : alert_history[k].state \in states}
  IN {k \in events : \A j \in events : k <= j}

\* the alerts of a repository with an open event and a fixed or dismissed
\* event whose first open event has the severity, as positions of their
\* first open events
ResolvedIn(repo, severity) ==
  {k \in DOMAIN alert_history :
     /\ alert_history[k].repo = repo
     /\ k \in FirstOf(alert_history[k], {"open"})
     /\ FirstOf(alert_history[k], {"fixed", "dismissed"}) # {}
     /\ toLowerCase(alert_history[k].severity) = severity}

\* recordedAt(first fixed or dismissed event) - recordedAt(first open event)
\* of the alert whose first open event is at position k
TimeToFix(k) ==
  LET fixed == CHOOSE j \in FirstOf(alert_history[k], {"fixed", "dismissed"}) : TRUE
  IN alert_history[fixed].recordedAt - alert_history[k].recordedAt

\* C12: for every (repo, severity) group the MTTR view reports resolvedCount
\* = the number of the repository's alerts whose history has both an open
\* and a fixed/dismissed event (grouped by the severity of the first open
\* event) and avgDays = the mean over those alerts of recordedAt(first
\* fixed/dismissed) - recordedAt(first open), rounded to one decimal; alerts
\* with no resolution event contribute to neither figure.
C12_MttrPerRepoAndSeverity ==
  \A repoFilter \in RepoFilters :
    LET view == getMttrMetrics(Db, repoFilter)
    IN \A repo \in Repos :
         \A severity \in {view[g].severity : g \in DOMAIN view}
                           \cup {toLowerCase(alert_history[k].severity) : k \in DOMAIN alert_history} :
           LET members == IF InFilter(repo, repoFilter)
                          THEN ResolvedIn(repo, severity) ELSE {}
               entries == {g \in DOMAIN view :
                             view[g].repo = repo /\ view[g].severity = severity}
           IN IF members = {}
              THEN entries = {}
              ELSE /\ Cardinality(entries) = 1
                   /\ \A g \in entries :
                        /\ view[g].resolvedCount = Cardinality(members)
                        /\ view[g].avgDays =
                             RoundTenths(Sum([k \in members |-> TimeToFix(k)], members),
                                         Cardinality(members))

\* C13: for every open alert, overdue is true exactly when the time elapsed
\* since firstSeen, in days, is strictly greater than the limit for its
\* severity: false at exactly the limit, true for any elapsed time above it.
C13_OverdueIffElapsedAboveLimit ==
  \A slaConfig \in SlaConfigs :
    \A entry \in getSlaViolations(Db, slaConfig, now) :
      entry.overdue <=> (now - entry.firstSeen > entry.slaLimitDays * UnitsPerDay)

\* the limit the claim gives a severity: the caller's override when one is
\* given, the default otherwise
ExpectedLimit(slaConfig, severity) ==
  IF severity \in DOMAIN slaConfig THEN slaConfig[severity]
  ELSE CASE severity = "critical" -> 2
         [] severity = "high" -> 7
         [] severity = "medium" -> 30
         [] severity = "low" -> 90

EntriesOf(view, row) == {entry \in view : SameKey(entry, row)}

\* C14: the SLA view has exactly one entry for every alert whose current
\* state is open and none for any other alert; an entry's firstSeen is the
\* recordedAt of the earliest event of its (repo, alertNumber) and its
\* slaLimitDays is the caller's override for the alert's severity when one
\* is given and otherwise the default.
C14_SlaEntryPerOpenAlert ==
  \A slaConfig \in SlaConfigs :
    LET view == getSlaViolations(Db, slaConfig, now)
    IN /\ \A entry \in view : \E a \in alerts : SameKey(entry, a)
       /\ \A a \in alerts :
            IF a.state = "open"
            THEN /\ Cardinality(EntriesOf(view, a)) = 1
                 /\ \A entry \in EntriesOf(view, a) :
                      /\ \E k \in EventsOf(a) :
                           /\ \A j \in EventsOf(a) : k <= j
                           /\ entry.firstSeen = alert_history[k].recordedAt
                      /\ entry.slaLimitDays =
                           ExpectedLimit(slaConfig, toLowerCase(a.severity))
            ELSE EntriesOf(view, a) = {}

\* the SLA view was read while it has an entry for an open alert first seen
\* before its latest event, with an overridden limit, and an alert that is
\* not open
C14_Witness ==
  /\ lastOp.op = "read"
  /\ \E a \in alerts : a.state # "open"
  /\ \E slaConfig \in SlaConfigs :
       \E entry \in getSlaViolations(Db, slaConfig, now) :
         /\ entry.severity \in DOMAIN slaConfig
         /\ \E k \in DOMAIN alert_history :
              /\ SameKey(alert_history[k], entry)
              /\ alert_history[k].recordedAt > entry.firstSeen


\* C21: the single-repository refresh always returns a success or failure
\* outcome to its caller and never throws, for every outcome of the fetch
\* (list or null) and of the ingestion (commit or storage failure).
C21_RefreshOneNeverThrows ==
  lastOp.op = "refreshOne" => lastOp.outcome \in {"ok", "fetch_failed"}

\* the last occurrence of each alertNumber of the list: the rows the upserts
\* of one ingestion leave
LastOccurrences(list) ==
  {list[i] : i \in {i \in DOMAIN list :
                     \A j \in DOMAIN list :
                       list[j].alertNumber = list[i].alertNumber => j <= i}}

\* C22: the CLI load path fetches exactly when --refresh is given or the
\* repository has no cache; with a cache and no --refresh it performs no
\* fetch and no write and returns the cached alerts; when a fetch fails it
\* returns the cached alerts if a cache exists and no result otherwise; the
\* returned usedCache flag is false exactly when the returned alerts come
\* from a successful fetch that was ingested in this call.
C22_LoadUsesCacheUnlessRefreshed ==
  [][lastOp'.op = "load" =>
       LET call == lastOp'.ret[1]
           outcome == lastOp'.outcome
           fetched == outcome # "cache"
           failed == outcome \in {"fetch_failed", "fetch_failed_cache"}
       IN /\ LET cached == getCachedAlerts(Db, call.repo)
               IN /\ fetched <=> (call.refresh \/ ~cached.hasCache)
                  /\ ~fetched =>
                       /\ UNCHANGED store
                       /\ call.returned # <<>>
                       /\ call.returned[1].alerts = cached.alerts
                  /\ failed =>
                       /\ UNCHANGED store
                       /\ IF cached.hasCache
                          THEN /\ call.returned # <<>>
                               /\ call.returned[1].alerts = cached.alerts
                          ELSE call.returned = <<>>
          /\ call.returned # <<>> =>
               (~call.returned[1].usedCache <=> outcome = "ok")
          /\ outcome = "ok" =>
               /\ call.returned # <<>>
               /\ LastOccurrences(call.returned[1].alerts) \subseteq alerts'
               /\ \A alert \in LastOccurrences(call.returned[1].alerts) :
                    alert.repo = call.repo
               /\ \E s \in repo_sync' :
                    s.repo = call.repo /\ call.returned[1].lastSync = <<s.lastSync>>]_vars

\* a call with --refresh on a cached repository fetched, ingested and
\* returned the fetched alert
C22_Witness ==
  /\ lastOp.op = "load"
  /\ lastOp.outcome = "ok"
  /\ lastOp.ret[1].refresh
  /\ lastOp.ret[1].returned # <<>>
  /\ ~lastOp.ret[1].returned[1].usedCache
  /\ lastOp.ret[1].returned[1].alerts # <<>>
  /\ getCachedAlerts(Db, lastOp.ret[1].repo).alerts # {}
  /\ Cardinality(repo_sync) = 2

\* C23: an alert contributes an MTTR sample only if its first open event was
\* recorded before its first fixed/dismissed event; an alert first recorded
\* as fixed or dismissed and only later as open contributes no sample, so no
\* reported avgDays is negative.
C23_MttrSampleOnlyOpenBeforeFixed ==
  \A repoFilter \in RepoFilters :
    /\ \A sample \in mttrJoin(Db, repoFilter) :
         \E k, j \in DOMAIN alert_history :
           /\ SameKey(alert_history[k], sample)
           /\ k \in FirstOf(alert_history[k], {"open"})
           /\ j \in FirstOf(alert_history[k], {"fixed", "dismissed"})
           /\ k < j
    /\ \A g \in DOMAIN getMttrMetrics(Db, repoFilter) :
         getMttrMetrics(Db, repoFilter)[g].avgDays >= 0

\* C24: a repository removed with removeRepo while a refreshAll run is in
\* progress stays removed: the run, which read its list once at its start,
\* does not re-create the repository's sync record, alert rows or history
\* when it later reaches it.
C24_RemovedStaysRemoved ==
  [][lastOp'.op = "runAttempt" =>
       \A repo \in Repos :
         RowsOf(Db, repo) = NoRows => RowsOf(DbAfter, repo) = NoRows]_vars

\* the count a trend gives a day and a severity: 0 when it has no point for
\* the day
TrendCount(points, day, key) ==
  IF \E i \in DOMAIN points : points[i].day = day
  THEN (CHOOSE point \in {points[i] : i \in DOMAIN points} : point.day = day)[key]
  ELSE 0

\* C25: for every day and severity, the unfiltered trend count equals the
\* sum over repositories of the repo-filtered trend counts: alerts of
\* different repositories with the same alertNumber are distinct alerts.
C25_UnfilteredTrendIsSumOverRepos ==
  \A all \in trendRowOrders(Db, <<>>) :
    \A perRepo \in [Repos -> UNION {trendRowOrders(Db, <<repo>>) : repo \in Repos}] :
      (\A repo \in Repos : perRepo[repo] \in trendRowOrders(Db, <<repo>>)) =>
        \A day \in {date(t) : t \in Times}, key \in TrendKeys :
          TrendCount(getTrendData(all), day, key) =
            Sum([repo \in Repos |-> TrendCount(getTrendData(perRepo[repo]), day, key)],
                Repos)

\* the history events a call appended: those after the ones before had
AppendedBy(before, after) ==
  SubSeq(after.alert_history, Len(before.alert_history) + 1, Len(after.alert_history))

\* C26: an ingestion changes only the alert rows of its repository whose
\* alertNumber occurs in the incoming list and the repository's sync record,
\* and appends history only for those alerts: rows and history of every
\* other repository are unchanged, and rows of the repository absent from
\* the list are neither deleted nor modified and get no history event.
C26_IngestTouchesOnlyIncoming ==
  \A repo \in Repos, raw \in IngestBatches :
    LET batch == normalizeAlerts(repo, raw)
        numbers == {batch[i].alertNumber : i \in DOMAIN batch}
        after == saveAlerts(Db, repo, batch, now, NoFault)
        appended == AppendedBy(Db, after)
        Absent(rows) == {a \in rows : a.repo = repo /\ a.alertNumber \notin numbers}
    IN /\ \A other \in Repos \ {repo} : RowsOf(after, other) = RowsOf(Db, other)
       /\ Absent(after.alerts) = Absent(alerts)
       /\ SubSeq(after.alert_history, 1, Len(alert_history)) = alert_history
       /\ \A k \in DOMAIN appended :
            appended[k].repo = repo /\ appended[k].alertNumber \in numbers

\* an ingestion committed while the repository held a second alert with a
\* history event and the other repository held an alert as well
C26_Witness ==
  /\ lastOp.op = "refreshOne"
  /\ lastOp.outcome = "ok"
  /\ \E repo \in Repos :
       /\ Cardinality(RowsOf(Db, repo).alerts) = 2
       /\ \A other \in Repos \ {repo} : RowsOf(Db, other).alerts # {}

\* C27, as stated: after an ingestion commits, the stored row of every
\* incoming alert equals the incoming alert's fields, every history event the
\* call appended has recordedAt = ts, and the repository's lastSync is ts.
C27_EveryIncomingAlertStored ==
  \A repo \in Repos, raw \in IngestBatches, ts \in Times :
    LET batch == normalizeAlerts(repo, raw)
        after == saveAlerts(Db, repo, batch, ts, NoFault)
        appended == AppendedBy(Db, after)
    IN /\ \A i \in DOMAIN batch : batch[i] \in after.alerts
       /\ \A k \in DOMAIN appended : appended[k].recordedAt = ts
       /\ [repo |-> repo, lastSync |-> ts] \in after.repo_sync

\* C27: after an ingestion commits, the stored row of every incoming
\* alertNumber equals the fields of the last incoming record with that
\* number (also when state and severity are unchanged), every history event
\* the call appended has recordedAt = ts, and the repository's lastSync is
\* ts.
C27_LastIncomingAlertStored ==
  \A repo \in Repos, raw \in IngestBatches, ts \in Times :
    LET batch == normalizeAlerts(repo, raw)
        after == saveAlerts(Db, repo, batch, ts, NoFault)
        appended == AppendedBy(Db, after)
    IN /\ \A alert \in LastOccurrences(batch) :
            {a \in after.alerts : SameKey(a, alert)} = {alert}
       /\ \A k \in DOMAIN appended : appended[k].recordedAt = ts
       /\ [repo |-> repo, lastSync |-> ts] \in after.repo_sync

\* an ingestion committed that rewrote a row whose state and severity had
\* not changed: the row differs from the record of its only history event
C27_Witness ==
  /\ lastOp.op = "refreshOne"
  /\ lastOp.outcome = "ok"
  /\ \E a \in alerts :
       /\ Cardinality(EventsOf(a)) = 1
       /\ \A k \in EventsOf(a) :
            /\ alert_history[k].rawJson # a.rawJson
            /\ Pair(alert_history[k]) = Pair(a)

\* a refresh run started by the scheduler is in progress
CronRunInProgress ==
  \E r \in RunSlots : runs[r].entry = "cron" /\ runs[r].pc # "idle"

\* C28: the scheduler's running flag is true exactly while a run started by
\* the scheduler is in progress: set before the run's first fetch, cleared
\* when the run ends, whether it completes or throws; while the fetches and
\* delays of a run come to an end, running = true leads to running = false.
C28_RunningWhileCronRun ==
  /\ [](schedulerState.running <=> CronRunInProgress)
  /\ [][lastOp'.op = "cronTick" /\ lastOp'.outcome = "threw"
          => ~schedulerState'.running]_vars
  /\ (schedulerState.running ~> ~schedulerState.running)

\* a tick started a run after an earlier run of the scheduler had ended
C28_Witness ==
  /\ lastOp.op = "cronTick"
  /\ lastOp.outcome = "started"
  /\ schedulerState.running
  /\ schedulerState.lastResult # <<>>
  /\ CronRunInProgress

\* C29: within one refreshAll run the repositories are processed one after
\* another: the fetch for the next repository starts only after the
\* previous repository's attempt has finished and the stagger delay has
\* elapsed, and a delay is awaited between consecutive repositories only:
\* n - 1 delays for n repositories, none after the last.
C29_OneAtATimeWithStagger ==
  [][\A r \in RunSlots :
       LET run == runs[r]
           next == runs'[r]
       IN /\ (run.pc # "idle" /\ next.pc # "idle" /\ next.i # run.i) =>
               /\ lastOp'.op = "runDelay"
               /\ run.pc = "delay" /\ next.pc = "fetch"
               /\ next.i = run.i + 1
               /\ Len(run.results) = run.i
          /\ next.pc = "delay" => next.i < Len(next.repos)
          /\ next.pc = "fetch" => next.delays = next.i - 1
          /\ (run.pc = "fetch" /\ next.pc = "idle") =>
               /\ run.i = Len(run.repos)
               /\ run.delays = Len(run.repos) - 1]_vars

\* a run over two repositories ended after one stagger delay
C29_Witness ==
  /\ lastOp.op = "runAttempt"
  /\ lastOp.ret # <<>>
  /\ Len(lastOp.ret[1].repos) = 2
  /\ lastOp.ret[1].result.refreshed = 2

\* the versions a list holds that are above the stored version
PendingVersions(migrations) ==
  {migrations[i] : i \in DOMAIN migrations} \ (0..currentVersion(schema))

\* C30: for any sequence of runMigrations calls, each migration is applied
\* at most once; the migrations whose version is greater than the stored
\* version are applied in ascending version order in one all-or-nothing
\* transaction; the stored version afterwards is the highest applied version
\* and never decreases; a call with no pending migration changes nothing.
C30_MigrationsOnceInOrder ==
  [][lastOp'.op = "runMigrations" =>
       LET migrations == lastOp'.ret[1]
           pending == PendingVersions(migrations)
           appended == SubSeq(schema'.applied, Len(schema.applied) + 1,
                              Len(schema'.applied))
           versions == {appended[k] : k \in DOMAIN appended}
       IN /\ \A j, k \in DOMAIN schema'.applied :
               j # k => schema'.applied[j] # schema'.applied[k]
          /\ SubSeq(schema'.applied, 1, Len(schema.applied)) = schema.applied
          /\ versions \in {{}, pending}
          /\ \A j, k \in DOMAIN appended : j < k => appended[j] < appended[k]
          /\ versions = {} =>
               /\ schema'.objects = schema.objects
               /\ schema'.schema_version = schema.schema_version
          /\ versions # {} =>
               /\ schema'.objects = schema.objects \cup versions
               /\ schema'.schema_version # <<>>
               /\ \A v \in versions : v <= currentVersion(schema')
               /\ currentVersion(schema') \in versions
          /\ lastOp'.outcome = "ok" => versions = pending
          /\ currentVersion(schema') >= currentVersion(schema)
          /\ pending = {} => schema' = schema]_vars

\* a call committed two migrations at once on a database that an earlier
\* call had migrated, after a call that was rolled back
C30_Witness ==
  /\ lastOp.op = "runMigrations"
  /\ lastOp.outcome = "ok"
  /\ Len(schema.applied) = MaxVersion
  /\ currentVersion(schema) = MaxVersion
  /\ Len(lastOp.ret[1]) >= 2
  /\ lastOp.ret[1][1] > lastOp.ret[1][2]

(* ---------------------------------------------------------------------- *)
(* Specification                                                           *)
(* ---------------------------------------------------------------------- *)
\* the Lifecycle Store under single-repository refreshes, removals and reads
NextStore ==
  \/ \E repo \in Repos : RefreshOne(RawBatches, repo) /\ seq' <= MaxHistory
  \/ \E repo \in Repos : RemoveRepoRoute(repo)
  \/ ResetRoute
  \/ \E repo \in Repos : GetRepoAlertsRoute(repo)

SpecStore == Init /\ [][NextStore]_vars

\* the paths that fetch (single refresh, CLI load, refresh-all runs started
\* through the API), and removal
NextRefresh ==
  \/ \E repo \in Repos : RefreshOne(RunBatches, repo) /\ seq' <= MaxHistory
  \/ \E repo \in Repos, refresh \in BOOLEAN :
       loadRepoAlerts(RunBatches, repo, refresh) /\ seq' <= MaxHistory
  \/ \E repo \in Repos : RemoveRepoRoute(repo)
  \/ \E r \in RunSlots : RefreshAllRoute(r)
  \/ \E r \in RunSlots : RunAttempt(RunBatches, r) /\ seq' <= MaxHistory
  \/ \E r \in RunSlots : RunDelay(r)

SpecRefresh == Init /\ [][NextRefresh]_vars

\* the cron scheduler next to the refresh-all route
NextScheduler ==
  \/ \E repo \in Repos : RefreshOne(SchedulerBatches, repo)
  \/ \E r \in RunSlots : RefreshAllRoute(r)
  \/ CronTick
  \/ \E r \in RunSlots : RunAttempt(SchedulerBatches, r)
  \/ \E r \in RunSlots : RunDelay(r)

SpecScheduler == Init /\ [][NextScheduler]_vars

\* the current-state views over ingestions of alerts with all their fields
NextViews ==
  \/ \E repo \in Repos : RefreshOne(ViewBatches, repo) /\ seq' <= MaxViewEvents
  \/ \E repo \in Repos : GetRepoAlertsRoute(repo)
  \/ \E view \in ReadViews : AnalyticsRoute(view)

SpecViews == Init /\ [][NextViews]_vars

\* the scheduler when the awaited fetch of every run settles and the stagger
\* timer of every run fires
SpecSchedulerFair ==
  /\ SpecScheduler
  /\ \A r \in RunSlots : WF_vars(RunAttempt(SchedulerBatches, r))
  /\ \A r \in RunSlots : WF_vars(RunDelay(r))

\* the history analytics: single-repository refreshes at different instants,
\* read by the analytics routes
NextHistory ==
  \/ \E repo \in Repos : RefreshOne(HistoryBatches(repo), repo) /\ seq' <= MaxEvents
  \/ \E t \in Times : ClockAdvance(t)
  \/ \E view \in ReadViews : AnalyticsRoute(view)

SpecHistory == Init /\ [][NextHistory]_vars

\* the SLA view: single-repository refreshes at different instants, read by
\* the analytics routes
NextSla ==
  \/ \E repo \in Repos : RefreshOne(SlaBatches, repo) /\ seq' <= MaxViewEvents
  \/ \E t \in Times : ClockAdvance(t)
  \/ \E view \in ReadViews : AnalyticsRoute(view)

SpecSla == Init /\ [][NextSla]_vars

\* one ingestion after another: single-repository refreshes whose lists name
\* one or two alerts
NextIngest ==
  \/ \E repo \in Repos : RefreshOne(IngestBatches, repo) /\ seq' <= MaxViewEvents

SpecIngest == Init /\ [][NextIngest]_vars

\* a database file opened again and again, by processes that carry different
\* migration lists
NextMigrate ==
  \/ \E migrations \in MigrationLists : OpenDatabase(migrations)

SpecMigrate == InitFresh /\ [][NextMigrate]_vars

====
